---- MODULE Spec2Model ----
(***************************************************************************)
(* The LAMO container codec of conversor.py (write_lamo / read_lamo, with  *)
(* its password encryption stage and bounded decompression) and the        *)
(* LamoApp handlers that call it.                                          *)
(*                                                                         *)
(* Bytes are modelled by what the code can observe of them: a file is the  *)
(* sequence of its frame fields, each present, short or absent; a payload  *)
(* is a zlib stream (or garbage) of a given length, possibly wrapped in a  *)
(* Fernet token under a key.  read_lamo and write_lamo run statement by    *)
(* statement (rd.pc, wr.pc); the GUI is single threaded, so no handler     *)
(* starts while a call is in progress.                                     *)
(***************************************************************************)
EXTENDS Integers, Sequences, FiniteSets, TLC

VARIABLES disk, app, rd, wr, lastWrite, viewer

vars == <<disk, app, rd, wr, lastWrite, viewer>>

(***************************************************************************)
(* Program constants                                                       *)
(***************************************************************************)
MAX_META_SIZE == 1024 * 1024
MAX_DECOMPRESSED_SIZE == 100 * 1024 * 1024
MAGIC == "LMGO"
VERSION == 1
\* the slice step of the decompression loop, compressed[i:i + 1024]
ChunkSize == 1024
(***************************************************************************)
(* Bounds of the model                                                     *)
(***************************************************************************)
\* number of distinct source images the user can open
NumImages == 2
\* number of distinct values os.urandom can return
NumSalts == 2

\* Python's None, where a string is expected
NoneVal == "<None>"

(***************************************************************************)
(* Images and the inner buffer (PIL is an external collaborator)           *)
(***************************************************************************)
FormatOf(id) == IF id % 3 = 1 THEN "PNG" ELSE IF id % 3 = 2 THEN "JPEG" ELSE "WEBP"

Image(id, fmt) ==
    [id |-> id, width |-> 4 * id, height |-> 3 * id, mode |-> "RGB", format |-> fmt]

\* current_image = None
NoImage == [id |-> 0, width |-> 0, height |-> 0, mode |-> NoneVal, format |-> NoneVal]

\* what Image.open can load from an ordinary image file
SourceImages == { Image(i, FormatOf(i)) : i \in 1..NumImages }

\* an image built in memory (Image.new, Image.frombytes): its format is None
NewImage == Image(1, NoneVal)

\* a large photograph, 7000 x 7000 RGB
BigImage == [id |-> NumImages + 1, width |-> 7000, height |-> 7000, mode |-> "RGB",
             format |-> "PNG"]

\* length of the PNG encoding of an image (data dependent; a representative):
\* a large image of noise does not encode to less than MAX_DECOMPRESSED_SIZE
PngSize(img) ==
    IF img.width * img.height * 3 > MAX_DECOMPRESSED_SIZE THEN MAX_DECOMPRESSED_SIZE
    ELSE 1500 * img.id

\* image_to_png_bytes: img.save(bio, format='PNG'); the format tag of the
\* source image is not part of the PNG bytes
image_to_png_bytes(img) ==
    [kind |-> "png", pix |-> img.id, width |-> img.width, height |-> img.height,
     mode |-> img.mode, size |-> PngSize(img)]

\* bytes that are no image at all
JunkInner(n) == [kind |-> "junk", pix |-> 0, width |-> 0, height |-> 0,
                 mode |-> NoneVal, size |-> n]

(***************************************************************************)
(* zlib                                                                    *)
(***************************************************************************)
\* len(zlib.compress(data, level)): level 0 stores the data (2 bytes of
\* header, 5 for each block of up to 65535 bytes, 4 of adler32); PNG data
\* is already deflated, so the other levels gain little
ZLen(size, level) ==
    IF level = 0 THEN size + 6 + 5 * (size \div 65535 + 1) ELSE (size * 9) \div 10 + 6

NoKey == [pw |-> NoneVal, salt |-> NoneVal]

\* A payload as bytes in memory or in a file region:
\*   token  "plain" (no Fernet token), "fernet" (a token made under key),
\*          "tampered" (a token that no longer verifies under any key)
\*   z      "zlib" (a zlib stream whose expansion is inner) or "garbage"
\*   zlen   the length of the whole zlib stream
\*   len    the number of bytes at hand
zlib_compress(inner, level) ==
    [token |-> "plain", key |-> NoKey, z |-> "zlib", inner |-> inner,
     zlen |-> ZLen(inner.size, level), len |-> ZLen(inner.size, level)]

EmptyBytes == [token |-> "plain", key |-> NoKey, z |-> "garbage", inner |-> JunkInner(0),
               zlen |-> 0, len |-> 0]

GarbageBytes(n) == [EmptyBytes EXCEPT !.len = n, !.zlen = n]

NChunks(n) == (n + ChunkSize - 1) \div ChunkSize

\* Total output of a decompressobj that has been fed the first c bytes of p:
\* the whole expansion once the deflate data is complete (only the 4-byte
\* adler32 trailer may be missing); before that the output is taken to be
\* spread evenly over the input chunks.
PerChunk(p) == p.inner.size \div NChunks(p.zlen)

OutAfter(p, c) ==
    IF c >= p.zlen - 4 THEN p.inner.size
    ELSE PerChunk(p) * (c \div ChunkSize) + (PerChunk(p) * (c % ChunkSize)) \div ChunkSize

\* dobj.decompress(chunk) raises zlib.error on bytes that are no zlib stream:
\* garbage, or a Fernet token (base64 text) that was never decrypted
ZlibRejects(p) == p.z = "garbage" \/ p.token # "plain"

\* dobj.flush(): decompress() was called without max_length, so it has
\* returned all the output of the input it was given and left no
\* unconsumed tail; flush() has nothing left to return
FlushOut(p) == 0

(***************************************************************************)
(* Password encryption stage (cryptography.fernet, PBKDF2)                 *)
(***************************************************************************)
Salts == { "s" \o ToString(i) : i \in 1..NumSalts }

\* a password that str.encode() cannot encode (a lone surrogate)
Unencodable == "pw\\ud800"

\* derive_key is deterministic and injective for the model's purposes
derive_key(password, salt) == [pw |-> password, salt |-> salt]

\* length of a Fernet token for n plaintext bytes: version, timestamp, IV,
\* PKCS7-padded ciphertext, HMAC, then urlsafe base64
FernetLen(n) == 4 * ((57 + 16 * (n \div 16 + 1) + 2) \div 3)

encrypt_data(data, password, salt) ==
    [data EXCEPT !.token = "fernet", !.key = derive_key(password, salt),
                 !.len = FernetLen(data.len)]

\* decrypt_data raises: "UnicodeEncodeError" from password.encode(),
\* "InvalidToken" from Fernet.decrypt (wrong key, tampered or malformed
\* token); "" when it returns
DecryptRaises(data, password, salt) ==
    IF password = Unencodable THEN "UnicodeEncodeError"
    ELSE IF data.token = "fernet" /\ data.key = derive_key(password, salt) THEN ""
    ELSE "InvalidToken"

decrypt_data(data, password, salt) ==
    [data EXCEPT !.token = "plain", !.key = NoKey, !.len = data.zlen]

\* str(e) of the exception decrypt_data raised: InvalidToken is raised
\* without arguments, a codec error describes the offending character
ExcText(exc) ==
    IF exc = "InvalidToken" THEN ""
    ELSE IF exc = "UnicodeEncodeError" THEN "'utf-8' codec can't encode character"
    ELSE exc

(***************************************************************************)
(* Metadata mappings and JSON                                              *)
(***************************************************************************)
EmptyMap == [k \in {} |-> 0]

\* dict.setdefault
SetDefault(m, k, v) == IF k \in DOMAIN m THEN m ELSE m @@ (k :> v)

\* values of the encrypted key, by their JSON text: the booleans, and a
\* string in its quotes
JsonTrue == "true"
JsonFalse == "false"
JsonText(str) == "\"" \o str \o "\""

\* metadata.get("encrypted") as a condition: Python takes every value for
\* true but False, None, 0 and the empty string, list or object
Truthy(m, k) == k \in DOMAIN m /\ m[k] \notin {JsonFalse, "null", "0", "\"\""}

\* the value of the key is the JSON boolean true
IsTrue(m, k) == k \in DOMAIN m /\ m[k] = JsonTrue

\* values of the salt key: urlsafe_b64encode(salt).decode() of salt bytes,
\* a string whose padding is wrong, a string of non-alphabet characters
\* (discarded by the decoder: it decodes to b''), a JSON number
SaltB64(s) == [enc |-> "b64", bytes |-> s]
SaltBadPad == [enc |-> "badpad", bytes |-> ""]
SaltJunk == [enc |-> "junk", bytes |-> ""]
SaltNonStr == [enc |-> "nonstr", bytes |-> ""]

\* a caller-supplied text longer than MAX_META_SIZE
BigText == "<2 MiB of text>"
BigTextLen == 2 * 1024 * 1024

EntryLen(k, v) == IF k = "note" /\ v = BigText THEN BigTextLen ELSE 24

RECURSIVE JsonLen(_)
\* len(json.dumps(meta, ensure_ascii=False).encode('utf-8'))
JsonLen(m) ==
    IF DOMAIN m = {} THEN 2
    ELSE LET k == CHOOSE x \in DOMAIN m : TRUE
         IN  EntryLen(k, m[k]) + JsonLen([x \in DOMAIN m \ {k} |-> m[x]])

\* metadata bytes: kind "object" (UTF-8 JSON of a mapping), "nonobject"
\* (valid JSON, not an object), "badjson", "badutf8"
json_dumps(m) == [kind |-> "object", map |-> m, len |-> JsonLen(m)]

MetaBytes(kind, n) == [kind |-> kind, map |-> EmptyMap, len |-> n]
NoMetaBytes == MetaBytes("badjson", 0)

(***************************************************************************)
(* Files                                                                   *)
(***************************************************************************)
\* magic    "LMGO", "XXXX" (four other bytes), "short" (fewer than 4 bytes)
\* version  the byte at offset 4, -1 when the file ends before it
\* metaLen  the u32 at offset 5, -1 when the file ends before its 4 bytes
\* meta     the bytes of the metaLen region that the file holds
\* dataLen  the u32 after the region, -1 when the file ends before it
\* payload  the bytes of the dataLen region that the file holds
File(magic, version, metaLen, meta, dataLen, payload) ==
    [exists |-> TRUE, magic |-> magic, version |-> version, metaLen |-> metaLen,
     meta |-> meta, dataLen |-> dataLen, payload |-> payload]

\* a file of zero bytes
EmptyFile == File("short", -1, -1, NoMetaBytes, -1, EmptyBytes)
NoFile == [EmptyFile EXCEPT !.exists = FALSE]

\* the frame write_lamo emits
Frame(meta_json, compressed) ==
    File(MAGIC, VERSION, meta_json.len, meta_json, compressed.len, compressed)

(***************************************************************************)
(* Files that exist before the program runs: well-formed frames (as a      *)
(* conforming writer produces them, plain and encrypted) and malformed or  *)
(* adversarial ones.                                                       *)
(***************************************************************************)
Img1 == Image(1, FormatOf(1))
Inner1 == image_to_png_bytes(Img1)
Plain1 == zlib_compress(Inner1, 9)
Enc1 == encrypt_data(Plain1, "pw1", "s1")

\* the metadata a conforming writer records for image img
WriterMeta(img, level) ==
    [width |-> img.width, height |-> img.height, mode |-> img.mode,
     inner_format |-> "PNG", zlib_level |-> level]

Meta1 == json_dumps(WriterMeta(Img1, 9))
EncMap1 == WriterMeta(Img1, 9) @@ [encrypted |-> JsonTrue, salt |-> SaltB64("s1")]
EncMeta1 == json_dumps(EncMap1)
EncMetaSalt(v) == json_dumps([EncMap1 EXCEPT !.salt = v])
EncMetaNoSalt == json_dumps(WriterMeta(Img1, 9) @@ [encrypted |-> JsonTrue])

\* a zlib stream of n bytes that expands to out bytes of junk
Stream(n, out) == [EmptyBytes EXCEPT !.z = "zlib", !.inner = JunkInner(out),
                                     !.zlen = n, !.len = n]

\* a stream at the highest ratio deflate reaches, about 1032:1
Bomb(chunks) == Stream(chunks * ChunkSize, 1032 * chunks * ChunkSize)

\* the part of a payload that a file holds when it ends after n of its bytes
CutTo(p, n) == [p EXCEPT !.len = n,
                         !.token = IF p.token = "plain" THEN "plain" ELSE "tampered"]

WellFormedFiles ==
    { Frame(Meta1, Plain1), Frame(EncMeta1, Enc1) }

HeaderFiles ==
    { EmptyFile,
      File("XXXX", VERSION, Meta1.len, Meta1, Plain1.len, Plain1),
      File(MAGIC, -1, -1, NoMetaBytes, -1, EmptyBytes),
      File(MAGIC, 2, Meta1.len, Meta1, Plain1.len, Plain1),
      File(MAGIC, VERSION, -1, NoMetaBytes, -1, EmptyBytes) }

MetaFiles ==
    { \* declared length over the cap: the file ends at once, or holds it all
      File(MAGIC, VERSION, MAX_META_SIZE + 1, NoMetaBytes, -1, EmptyBytes),
      File(MAGIC, VERSION, MAX_META_SIZE + 1,
           [Meta1 EXCEPT !.len = MAX_META_SIZE + 1], Plain1.len, Plain1),
      \* declared length equal to the cap (JSON padded with white space)
      File(MAGIC, VERSION, MAX_META_SIZE,
           [Meta1 EXCEPT !.len = MAX_META_SIZE], Plain1.len, Plain1),
      \* the file ends inside the metadata region
      File(MAGIC, VERSION, Meta1.len + 10, Meta1, -1, EmptyBytes),
      File(MAGIC, VERSION, Meta1.len, MetaBytes("badjson", Meta1.len - 5), -1, EmptyBytes),
      \* metadata that is no JSON object
      File(MAGIC, VERSION, 3, MetaBytes("nonobject", 3), Plain1.len, Plain1),
      File(MAGIC, VERSION, 7, MetaBytes("badjson", 7), Plain1.len, Plain1),
      File(MAGIC, VERSION, 7, MetaBytes("badutf8", 7), Plain1.len, Plain1),
      File(MAGIC, VERSION, 7, MetaBytes("badjson", 7), MAX_DECOMPRESSED_SIZE + 1, Plain1) }

PayloadFiles ==
    { \* the file ends before dataLen
      File(MAGIC, VERSION, Meta1.len, Meta1, -1, EmptyBytes),
      \* declared length over the cap, file shorter / equal to the cap
      File(MAGIC, VERSION, Meta1.len, Meta1, MAX_DECOMPRESSED_SIZE + 1, Plain1),
      File(MAGIC, VERSION, Meta1.len, Meta1, MAX_DECOMPRESSED_SIZE + 1, EmptyBytes),
      File(MAGIC, VERSION, Meta1.len, Meta1, MAX_DECOMPRESSED_SIZE, Plain1),
      \* the file ends inside the payload region
      File(MAGIC, VERSION, Meta1.len, Meta1, Plain1.len + 10, Plain1),
      File(MAGIC, VERSION, Meta1.len, Meta1, Plain1.len, CutTo(Plain1, Plain1.len - 2)),
      File(MAGIC, VERSION, Meta1.len, Meta1, Plain1.len, CutTo(Plain1, Plain1.len \div 2)),
      \* payloads that are no zlib stream of an image
      File(MAGIC, VERSION, Meta1.len, Meta1, 0, EmptyBytes),
      File(MAGIC, VERSION, Meta1.len, Meta1, 40, GarbageBytes(40)),
      File(MAGIC, VERSION, Meta1.len, Meta1, 50, Stream(50, 5000)) }

BombFiles ==
    { File(MAGIC, VERSION, Meta1.len, Meta1, p.len, p) :
        p \in { Bomb(100), Bomb(101),
                Stream(101 * ChunkSize, MAX_DECOMPRESSED_SIZE),
                Stream(101 * ChunkSize + 1, MAX_DECOMPRESSED_SIZE + 1) } }

EncryptedFiles ==
    { File(MAGIC, VERSION, EncMeta1.len, EncMeta1, Enc1.len, [Enc1 EXCEPT !.token = "tampered"]),
      File(MAGIC, VERSION, EncMeta1.len, EncMeta1, Enc1.len - 1, CutTo(Enc1, Enc1.len - 1)),
      File(MAGIC, VERSION, EncMeta1.len, EncMeta1, Plain1.len, Plain1),
      File(MAGIC, VERSION, EncMeta1.len, EncMeta1, 0, EmptyBytes),
      Frame(EncMeta1, encrypt_data(GarbageBytes(40), "pw1", "s1")),
      Frame(EncMetaNoSalt, Enc1),
      Frame(EncMetaSalt(SaltBadPad), Enc1),
      Frame(EncMetaSalt(SaltJunk), Enc1),
      Frame(EncMetaSalt(SaltNonStr), Enc1),
      Frame(EncMetaSalt(SaltB64("s2")), Enc1),
      Frame(Meta1, Enc1),
      \* not encrypted, and saying so with a string
      Frame(json_dumps(WriterMeta(Img1, 9) @@ [encrypted |-> JsonText("no")]), Plain1) }

CraftedFiles ==
    WellFormedFiles \cup HeaderFiles \cup MetaFiles \cup PayloadFiles
        \cup BombFiles \cup EncryptedFiles

(***************************************************************************)
(* State                                                                   *)
(***************************************************************************)
\* the one path the dialogs return
LamoPath == "saida.lamo"

ImagePath(img) == "img" \o ToString(img.id)

\* os.path.basename: the model's paths have no directory part
basename(path) == path

\* LamoApp.__init__ / LamoApp.clear
AppInit == [current_image |-> NoImage, current_meta |-> EmptyMap, current_path |-> NoneVal]

\* the locals of a read_lamo call; log lists the stages it has run and
\* file_at_open keeps the file as open() found it
RdIdle ==
    [pc |-> "idle", caller |-> "", log |-> <<>>, version |-> -1, meta_len |-> -1,
     meta_raw |-> NoMetaBytes, isdict |-> FALSE, metadata |-> EmptyMap, data_len |-> -1,
     compressed |-> EmptyBytes, password |-> NoneVal, salt |-> NoneVal, chunks |-> 0,
     png_size |-> 0, img |-> NoImage, exc |-> "", msg |-> "", detail |-> "",
     file_at_open |-> NoFile]

\* the locals of a write_lamo call; fields counts the f.write calls done and
\* file_at_call keeps the file at path as the call found it
WrIdle ==
    [pc |-> "idle", caller |-> "", img |-> NoImage, metadata |-> EmptyMap,
     password |-> NoneVal, zlib_level |-> 9, compressed |-> EmptyBytes, salt |-> NoneVal,
     meta |-> EmptyMap, meta_json |-> NoMetaBytes, fields |-> 0, exc |-> "", msg |-> "",
     file_at_call |-> NoFile]

\* history: the arguments of the write_lamo call that produced the file on disk
NoWrite == [valid |-> FALSE, img |-> NoImage, metadata |-> EmptyMap, password |-> NoneVal,
            salt |-> NoneVal, zlib_level |-> 9]

Idle == rd.pc = "idle" /\ wr.pc = "idle"

(***************************************************************************)
(* LamoViewer (LamoViewer.py): its state.  Tk runs one handler at a time;  *)
(* each handler is one step.                                               *)
(***************************************************************************)
slideshow_delay == 3000

\* what the file dialog can return: .lamo files (a plain one, a corrupt one,
\* an encrypted one) and an ordinary image; "" when it is cancelled
ViewerPaths == {"a.lamo", "b.lamo", "c.lamo", "d.png"}

\* the supported files of the folders the directory dialog can return, as
\* sorted(os.listdir(folder)) lists them; <<>> for a folder with none
Folders ==
    { <<>>, <<"b.lamo", "d.png">>, <<"a.lamo", "b.lamo", "c.lamo", "d.png">> }

\* read_lamo(path) / Image.open(path) returns an image: the corrupt file
\* never does, the encrypted one does when the password dialog is answered
\* with its password
Loads(path, answer) ==
    IF path = "b.lamo" THEN FALSE
    ELSE IF path = "c.lamo" THEN answer = "pw1"
    ELSE TRUE

\* zoom is a float that the handlers multiply and divide by 1.25 and clamp
\* to [0.05, 8.0]: it is 1.25^k times 1.0, times 8.0 (after the upper clamp)
\* or times 0.05 (after the lower clamp)
Zoom(base, k) == [base |-> base, k |-> k]
ZoomOne == Zoom("1.0", 0)
ZoomMax == Zoom("8.0", 0)
ZoomMin == Zoom("0.05", 0)

RECURSIVE Times125(_, _)
\* x * 1.25^k, for x in units of 1/10000
Times125(x, k) ==
    IF k = 0 THEN x
    ELSE IF k > 0 THEN Times125((x * 5) \div 4, k - 1)
    ELSE Times125((x * 4) \div 5, k + 1)

\* the value of a zoom, in units of 1/10000
ZoomValue(z) ==
    Times125(IF z.base = "1.0" THEN 10000 ELSE IF z.base = "8.0" THEN 80000 ELSE 500, z.k)

\* LamoViewer.__init__; timers holds the time left, in ms, of each pending
\* after() callback, oldest first
ViewerInit ==
    [files |-> <<>>, index |-> -1, pil_image |-> NoneVal, zoom |-> ZoomOne, fit |-> TRUE,
     slideshow_running |-> FALSE, timers |-> <<>>]

Init ==
    /\ disk \in CraftedFiles \cup {NoFile}
    /\ app = AppInit
    /\ rd = RdIdle
    /\ wr = WrIdle
    /\ lastWrite = NoWrite
    /\ viewer = ViewerInit

(***************************************************************************)
(* read_lamo, statement by statement                                       *)
(***************************************************************************)
\* the messages of read_lamo's own raise statements
MsgMagic == "Formato nao reconhecido (magic mismatch)."
MsgVersion == "Versao incompativel: "
MsgMetaSize == "Tamanho de metadados excedido: "
MsgDataSize == "Tamanho de dados comprimidos excedido: "
MsgNoPassword == "Operacao cancelada. Senha necessaria para descriptografar."
MsgDecrypt == "Falha na descriptografia. Senha incorreta ou arquivo corrompido: "
MsgBomb == "Tamanho de dados descompactados excedido (Compression Bomb)"

Raise(r, exc, msg, detail) ==
    [r EXCEPT !.pc = "failed", !.exc = exc, !.msg = msg, !.detail = detail]

Logged(r, stage) == [r EXCEPT !.log = Append(@, stage)]

\* what simpledialog.askstring can return: None (cancelled), an empty entry,
\* a password
ProviderAnswers == {NoneVal, "", "pw1", "pw2", Unencodable}

\* `if not password`
NoPassword(pw) == pw = NoneVal \/ pw = ""

\* with open(path, 'rb') as f
ReadOpen(caller) ==
    /\ Idle
    /\ disk.exists
    /\ rd' = [RdIdle EXCEPT !.pc = "magic", !.caller = caller, !.file_at_open = disk]
    /\ UNCHANGED <<disk, app, wr, lastWrite, viewer>>

\* magic = f.read(4); if magic != MAGIC: raise
ReadMagicStep(r) ==
    IF disk.magic # MAGIC
    THEN Raise(Logged(r, "magic"), "ValueError", MsgMagic, "")
    ELSE [Logged(r, "magic") EXCEPT !.pc = "version"]

ReadMagic ==
    /\ rd.pc = "magic"
    /\ rd' = ReadMagicStep(rd)
    /\ UNCHANGED <<disk, app, wr, lastWrite, viewer>>

\* mutant of ReadVersionStep: the version byte is read and not compared
ReadVersionStep_AnyVersion(r) ==
    IF disk.version = -1
    THEN Raise(Logged(r, "version"), "struct.error", "", "")
    ELSE [Logged(r, "version") EXCEPT !.version = disk.version, !.pc = "meta_len"]

\* version = struct.unpack('!B', f.read(1))[0]; if version != VERSION: raise
ReadVersionStep(r) ==
    IF disk.version = -1
    THEN Raise(Logged(r, "version"), "struct.error", "", "")
    ELSE IF disk.version # VERSION
    THEN Raise([Logged(r, "version") EXCEPT !.version = disk.version],
               "ValueError", MsgVersion, ToString(disk.version))
    ELSE [Logged(r, "version") EXCEPT !.version = disk.version, !.pc = "meta_len"]

ReadVersion ==
    /\ rd.pc = "version"
    /\ rd' = ReadVersionStep(rd)
    /\ UNCHANGED <<disk, app, wr, lastWrite, viewer>>

\* meta_len = struct.unpack('!I', f.read(4))[0]; if meta_len > MAX_META_SIZE: raise
ReadMetaLenStep(r) ==
    IF disk.metaLen = -1
    THEN Raise(Logged(r, "meta_len"), "struct.error", "", "")
    ELSE IF disk.metaLen > MAX_META_SIZE
    THEN Raise([Logged(r, "meta_len") EXCEPT !.meta_len = disk.metaLen],
               "ValueError", MsgMetaSize, ToString(disk.metaLen))
    ELSE [Logged(r, "meta_len") EXCEPT !.meta_len = disk.metaLen, !.pc = "meta"]

ReadMetaLen ==
    /\ rd.pc = "meta_len"
    /\ rd' = ReadMetaLenStep(rd)
    /\ UNCHANGED <<disk, app, wr, lastWrite, viewer>>

\* meta_json = f.read(meta_len).decode('utf-8'): f.read returns what the
\* file holds of the region, short or not
ReadMetaStep(r) ==
    IF disk.meta.kind = "badutf8"
    THEN Raise([Logged(r, "meta") EXCEPT !.meta_raw = disk.meta],
               "UnicodeDecodeError", "", "")
    ELSE [Logged(r, "meta") EXCEPT !.meta_raw = disk.meta, !.pc = "json"]

ReadMeta ==
    /\ rd.pc = "meta"
    /\ rd' = ReadMetaStep(rd)
    /\ UNCHANGED <<disk, app, wr, lastWrite, viewer>>

\* metadata = json.loads(meta_json)
ParseMetaStep(r) ==
    IF r.meta_raw.kind = "badjson"
    THEN Raise(Logged(r, "json"), "JSONDecodeError", "", "")
    ELSE [Logged(r, "json") EXCEPT !.isdict = (r.meta_raw.kind = "object"),
                                   !.metadata = r.meta_raw.map, !.pc = "data_len"]

ParseMeta ==
    /\ rd.pc = "json"
    /\ rd' = ParseMetaStep(rd)
    /\ UNCHANGED <<disk, app, wr, lastWrite, viewer>>

\* mutant of ReadDataLenStep: the length is taken as read, without the cap check
ReadDataLenStep_Unchecked(r) ==
    IF disk.dataLen = -1
    THEN Raise(Logged(r, "data_len"), "struct.error", "", "")
    ELSE [Logged(r, "data_len") EXCEPT !.data_len = disk.dataLen, !.pc = "payload"]

\* data_len = struct.unpack('!I', f.read(4))[0]; if data_len > MAX_DECOMPRESSED_SIZE: raise
ReadDataLenStep(r) ==
    IF disk.dataLen = -1
    THEN Raise(Logged(r, "data_len"), "struct.error", "", "")
    ELSE IF disk.dataLen > MAX_DECOMPRESSED_SIZE
    THEN Raise([Logged(r, "data_len") EXCEPT !.data_len = disk.dataLen],
               "ValueError", MsgDataSize, ToString(disk.dataLen))
    ELSE [Logged(r, "data_len") EXCEPT !.data_len = disk.dataLen, !.pc = "payload"]

ReadDataLen ==
    /\ rd.pc = "data_len"
    /\ rd' = ReadDataLenStep(rd)
    /\ UNCHANGED <<disk, app, wr, lastWrite, viewer>>

\* compressed = f.read(data_len), then `if metadata.get("encrypted")`
ReadPayloadStep(r) ==
    LET r1 == [Logged(r, "payload") EXCEPT !.compressed = disk.payload]
    IN  IF ~r1.isdict THEN Raise(r1, "AttributeError", "", "")
        ELSE IF Truthy(r1.metadata, "encrypted") THEN [r1 EXCEPT !.pc = "ask"]
        ELSE [r1 EXCEPT !.pc = "chunk"]

ReadPayload ==
    /\ rd.pc = "payload"
    /\ rd' = ReadPayloadStep(rd)
    /\ UNCHANGED <<disk, app, wr, lastWrite, viewer>>

\* password = simpledialog.askstring(...); if not password: raise
AskPasswordStep(r, answer) ==
    IF NoPassword(answer)
    THEN Raise([Logged(r, "ask") EXCEPT !.password = answer], "ValueError", MsgNoPassword, "")
    ELSE [Logged(r, "ask") EXCEPT !.password = answer, !.pc = "salt"]

AskPassword ==
    /\ rd.pc = "ask"
    /\ \E answer \in ProviderAnswers : rd' = AskPasswordStep(rd, answer)
    /\ UNCHANGED <<disk, app, wr, lastWrite, viewer>>

\* salt = urlsafe_b64decode(metadata.get("salt").encode('utf-8'))
DecodeSaltStep(r) ==
    IF "salt" \notin DOMAIN r.metadata
    THEN Raise(Logged(r, "salt"), "AttributeError", "", "")
    ELSE LET v == r.metadata.salt
         IN  IF v.enc = "nonstr" THEN Raise(Logged(r, "salt"), "AttributeError", "", "")
             ELSE IF v.enc = "badpad" THEN Raise(Logged(r, "salt"), "binascii.Error", "", "")
             ELSE [Logged(r, "salt") EXCEPT !.salt = v.bytes, !.pc = "decrypt"]

DecodeSalt ==
    /\ rd.pc = "salt"
    /\ rd' = DecodeSaltStep(rd)
    /\ UNCHANGED <<disk, app, wr, lastWrite, viewer>>

\* mutant of DecryptStep: no try/except, the exception of decrypt_data escapes
DecryptStep_Unwrapped(r) ==
    LET e == DecryptRaises(r.compressed, r.password, r.salt)
    IN  IF e # ""
        THEN Raise(Logged(r, "decrypt"), e, ExcText(e), "")
        ELSE [Logged(r, "decrypt") EXCEPT
                 !.compressed = decrypt_data(r.compressed, r.password, r.salt),
                 !.pc = "chunk"]

\* try: compressed = decrypt_data(compressed, password, salt)
\* except Exception as e: raise ValueError(f"Falha na descriptografia. ...: {e}")
DecryptStep(r) ==
    LET e == DecryptRaises(r.compressed, r.password, r.salt)
    IN  IF e # ""
        THEN Raise(Logged(r, "decrypt"), "ValueError", MsgDecrypt, ExcText(e))
        ELSE [Logged(r, "decrypt") EXCEPT
                 !.compressed = decrypt_data(r.compressed, r.password, r.salt),
                 !.pc = "chunk"]

Decrypt ==
    /\ rd.pc = "decrypt"
    /\ rd' = DecryptStep(rd)
    /\ UNCHANGED <<disk, app, wr, lastWrite, viewer>>

Min(a, b) == IF a < b THEN a ELSE b

\* mutant of DecompressChunkStep: the size is checked once, after the loop
\* (that is, not here)
DecompressChunkStep_NoCap(r) ==
    IF ZlibRejects(r.compressed)
    THEN Raise([r EXCEPT !.chunks = @ + 1], "zlib.error", "", "")
    ELSE LET n == r.chunks + 1
             size == OutAfter(r.compressed, Min(n * ChunkSize, r.compressed.len))
         IN  [r EXCEPT !.chunks = n, !.png_size = size]

\* one turn of the loop: png_bytes += dobj.decompress(chunk);
\* decompressed_size = len(png_bytes); if decompressed_size > MAX: raise
DecompressChunkStep(r) ==
    IF ZlibRejects(r.compressed)
    THEN Raise([r EXCEPT !.chunks = @ + 1], "zlib.error", "", "")
    ELSE LET n == r.chunks + 1
             size == OutAfter(r.compressed, Min(n * ChunkSize, r.compressed.len))
         IN  IF size > MAX_DECOMPRESSED_SIZE
             THEN Raise([r EXCEPT !.chunks = n, !.png_size = size],
                        "ValueError", MsgBomb, "")
             ELSE [r EXCEPT !.chunks = n, !.png_size = size]

DecompressChunk ==
    /\ rd.pc = "chunk"
    /\ rd.chunks < NChunks(rd.compressed.len)
    /\ rd' = DecompressChunkStep(rd)
    /\ UNCHANGED <<disk, app, wr, lastWrite, viewer>>

\* png_bytes += dobj.flush(), after the last chunk
FlushStep(r) ==
    [Logged(r, "decompress") EXCEPT !.png_size = @ + FlushOut(r.compressed),
                                    !.pc = "image"]

Flush ==
    /\ rd.pc = "chunk"
    /\ rd.chunks = NChunks(rd.compressed.len)
    /\ rd' = FlushStep(rd)
    /\ UNCHANGED <<disk, app, wr, lastWrite, viewer>>

\* img = Image.open(BytesIO(png_bytes)); img.load(); img.format = "PNG"
ImageOpenStep(r) ==
    LET inner == r.compressed.inner
    IN  IF inner.kind = "png" /\ r.png_size = inner.size
        THEN [Logged(r, "image") EXCEPT
                 !.img = [id |-> inner.pix, width |-> inner.width,
                          height |-> inner.height, mode |-> inner.mode,
                          format |-> "PNG"],
                 !.pc = "done"]
        ELSE Raise(Logged(r, "image"), "OSError", "", "")

ImageOpen ==
    /\ rd.pc = "image"
    /\ rd' = ImageOpenStep(rd)
    /\ UNCHANGED <<disk, app, wr, lastWrite, viewer>>

(***************************************************************************)
(* write_lamo, statement by statement                                      *)
(***************************************************************************)
MsgMetaGen == "Tamanho de metadados gerados excedido: "

\* spinbox values of zlib_level_var that the model tries
Levels == {0, 9}

WRaise(w, exc, msg) == [w EXCEPT !.pc = "failed", !.exc = exc, !.msg = msg]

\* entry: the arguments are bound (metadata None is the empty mapping)
WriteCall(caller, img, metadata, password, level) ==
    [WrIdle EXCEPT !.pc = "compress", !.caller = caller, !.img = img,
                   !.metadata = metadata, !.password = password, !.zlib_level = level,
                   !.file_at_call = disk]

\* png_bytes = image_to_png_bytes(img); compressed = zlib.compress(png_bytes, level)
WCompressStep(w) ==
    [w EXCEPT !.compressed = zlib_compress(image_to_png_bytes(w.img), w.zlib_level),
              !.pc = "encrypt"]

WCompress ==
    /\ wr.pc = "compress"
    /\ wr' = WCompressStep(wr)
    /\ UNCHANGED <<disk, app, rd, lastWrite, viewer>>

\* salt = None; if password: salt = os.urandom(16); compressed = encrypt_data(...);
\* meta.setdefault("encrypted", True): meta is assigned only further down, so
\* the name is an unbound local here
WEncryptStep(w, s) ==
    IF NoPassword(w.password)
    THEN [w EXCEPT !.pc = "meta"]
    ELSE WRaise([w EXCEPT !.salt = s,
                          !.compressed = encrypt_data(w.compressed, w.password, s)],
                "UnboundLocalError", "")

WEncrypt ==
    /\ wr.pc = "encrypt"
    /\ \E s \in Salts : wr' = WEncryptStep(wr, s)
    /\ UNCHANGED <<disk, app, rd, lastWrite, viewer>>

\* getattr(img, "format", "PNG") or "PNG"
FormatOrPng(img) == IF img.format = NoneVal THEN "PNG" ELSE img.format

\* meta = metadata.copy() if metadata else {}; the five setdefault calls
FillDefaults(metadata, img, level) ==
    SetDefault(
      SetDefault(
        SetDefault(
          SetDefault(
            SetDefault(metadata, "width", img.width),
            "height", img.height),
          "mode", img.mode),
        "inner_format", FormatOrPng(img)),
      "zlib_level", level)

\* ... and meta_json = json.dumps(meta, ensure_ascii=False).encode('utf-8')
WMetaStep(w) ==
    LET meta == FillDefaults(w.metadata, w.img, w.zlib_level)
    IN  [w EXCEPT !.meta = meta, !.meta_json = json_dumps(meta), !.pc = "check"]

WMeta ==
    /\ wr.pc = "meta"
    /\ wr' = WMetaStep(wr)
    /\ UNCHANGED <<disk, app, rd, lastWrite, viewer>>

\* mutant of WCheckStep: the length of the serialized metadata is not checked
WCheckStep_NoCheck(w) == [w EXCEPT !.pc = "open"]

\* if len(meta_json) > MAX_META_SIZE: raise ValueError
WCheckStep(w) ==
    IF w.meta_json.len > MAX_META_SIZE
    THEN WRaise(w, "ValueError", MsgMetaGen)
    ELSE [w EXCEPT !.pc = "open"]

WCheck ==
    /\ wr.pc = "check"
    /\ wr' = WCheckStep(wr)
    /\ UNCHANGED <<disk, app, rd, lastWrite, viewer>>

\* with open(path, 'wb') as f: the file is created or truncated
WOpen ==
    /\ wr.pc = "open"
    /\ disk' = EmptyFile
    /\ wr' = [wr EXCEPT !.pc = "write"]
    /\ lastWrite' = NoWrite
    /\ UNCHANGED <<app, rd, viewer>>

\* the file after the first n of the six f.write calls
FramePrefix(meta_json, compressed, n) ==
    File(IF n >= 1 THEN MAGIC ELSE "short",
         IF n >= 2 THEN VERSION ELSE -1,
         IF n >= 3 THEN meta_json.len ELSE -1,
         IF n >= 4 THEN meta_json ELSE NoMetaBytes,
         IF n >= 5 THEN compressed.len ELSE -1,
         IF n >= 6 THEN compressed ELSE EmptyBytes)

\* f.write(MAGIC) ... f.write(compressed), one call at a time
WWrite ==
    /\ wr.pc = "write"
    /\ wr.fields < 6
    /\ disk' = FramePrefix(wr.meta_json, wr.compressed, wr.fields + 1)
    /\ wr' = [wr EXCEPT !.fields = @ + 1]
    /\ UNCHANGED <<app, rd, lastWrite, viewer>>

\* an f.write call raises OSError (the device is full, the medium is gone):
\* the with block closes the file, which keeps what was written before, and
\* the exception leaves write_lamo
WWriteFails ==
    /\ wr.pc = "write"
    /\ wr.fields < 6
    /\ wr' = WRaise(wr, "OSError", "")
    /\ UNCHANGED <<disk, app, rd, lastWrite, viewer>>

\* the with block closes the file and write_lamo returns
WClose ==
    /\ wr.pc = "write"
    /\ wr.fields = 6
    /\ wr' = [wr EXCEPT !.pc = "done"]
    /\ lastWrite' = [valid |-> TRUE, img |-> wr.img, metadata |-> wr.metadata,
                     password |-> wr.password, salt |-> wr.salt,
                     zlib_level |-> wr.zlib_level]
    /\ UNCHANGED <<disk, app, rd, viewer>>

(***************************************************************************)
(* Callers                                                                 *)
(***************************************************************************)
\* metadata arguments of a direct write_lamo call
CallerMetas ==
    { EmptyMap,
      [source |-> "a.png", orig_format |-> "PNG"],
      [width |-> 999],
      [inner_format |-> "JPEG", zlib_level |-> 3],
      [encrypted |-> JsonTrue, salt |-> SaltB64("s1")],
      [encrypted |-> JsonFalse],
      [note |-> BigText] }

\* password arguments of a direct write_lamo call
CallerPasswords == {NoneVal, "", "pw1"}

\* image and zlib_level arguments of a direct write_lamo call; the large
\* image is written at level 0 (stored), where the payload is longer than the
\* inner buffer
CallerImages ==
    ((SourceImages \cup {NewImage}) \X Levels) \cup {<<BigImage, 0>>}

\* write_lamo called directly (a script, convert_file_to_lamo, a test): no
\* LamoApp state takes part in the call, so it is taken from the initial one
CallWriteLamo ==
    /\ Idle
    /\ app = AppInit
    /\ \E il \in CallerImages, m \in CallerMetas, pw \in CallerPasswords :
          wr' = WriteCall("api", il[1], m, pw, il[2])
    /\ UNCHANGED <<disk, app, rd, lastWrite, viewer>>

WriteReturnApi ==
    /\ wr.caller = "api"
    /\ wr.pc \in {"done", "failed"}
    /\ wr' = WrIdle
    /\ UNCHANGED <<disk, app, rd, lastWrite, viewer>>

\* LamoApp.set_image, with current_path set by the caller right after
set_image(img, meta, path) ==
    [current_image |-> img, current_meta |-> meta, current_path |-> path]

\* LamoApp.open_image
open_image ==
    /\ Idle
    /\ \E img \in SourceImages :
          app' = set_image(img,
                           [source |-> basename(ImagePath(img)), note |-> "Imagem aberta",
                            orig_format |-> img.format],
                           ImagePath(img))
    /\ UNCHANGED <<disk, rd, wr, lastWrite, viewer>>

\* LamoApp.clear
clear ==
    /\ Idle
    /\ app # AppInit
    /\ app' = AppInit
    /\ UNCHANGED <<disk, rd, wr, lastWrite, viewer>>

\* LamoApp.open_lamo up to its read_lamo call
open_lamo == ReadOpen("open_lamo")

\* LamoApp.open_lamo after read_lamo raised: the error is printed and shown
open_lamo_failed ==
    /\ rd.caller = "open_lamo"
    /\ rd.pc = "failed"
    /\ rd' = RdIdle
    /\ UNCHANGED <<disk, app, wr, lastWrite, viewer>>

\* LamoApp.open_lamo after read_lamo returned
open_lamo_done ==
    /\ rd.caller = "open_lamo"
    /\ rd.pc = "done"
    /\ app' = set_image(rd.img,
                        SetDefault(rd.metadata, "source_lamo", basename(LamoPath)),
                        LamoPath)
    /\ rd' = RdIdle
    /\ UNCHANGED <<disk, wr, lastWrite, viewer>>

\* the metadata convert_current_image passes on
ConvertMeta(a) ==
    SetDefault(SetDefault(a.current_meta, "source", basename(a.current_path)),
               "orig_format", a.current_image.format)

\* LamoApp.convert_current_image up to its write_lamo call; encrypt and
\* password are the state of the check box and of the entry
convert_current_image ==
    /\ Idle
    /\ app.current_image # NoImage
    /\ \E encrypt \in BOOLEAN, password \in {"", "pw1"}, lv \in Levels :
          /\ ~(encrypt /\ password = "")
          /\ wr' = WriteCall("convert_current_image", app.current_image, ConvertMeta(app),
                             IF encrypt THEN password ELSE NoneVal, lv)
    /\ UNCHANGED <<disk, app, rd, lastWrite, viewer>>

\* ... after write_lamo raised
convert_failed ==
    /\ wr.caller = "convert_current_image"
    /\ wr.pc = "failed"
    /\ wr' = WrIdle
    /\ UNCHANGED <<disk, app, rd, lastWrite, viewer>>

\* ... after write_lamo returned: self.current_path = out
convert_done ==
    /\ wr.caller = "convert_current_image"
    /\ wr.pc = "done"
    /\ app' = [app EXCEPT !.current_path = LamoPath]
    /\ wr' = WrIdle
    /\ UNCHANGED <<disk, rd, lastWrite, viewer>>

(***************************************************************************)
(* LamoViewer handlers                                                     *)
(***************************************************************************)
\* time that passes in one step of the model, in ms
TickMs == 1500
\* pending after() callbacks beyond which the model starts no slideshow
MaxTimers == 2

\* what the password dialog of read_lamo can return during the load of the
\* file at position i of files; it is shown for the encrypted file only
ViewerAnswers(files, i) ==
    IF 0 <= i /\ i < Len(files) /\ files[i + 1] = "c.lamo"
    THEN {NoneVal, "pw1", "pw2"}
    ELSE {NoneVal}

CodecIdle ==
    /\ disk = NoFile /\ app = AppInit /\ rd = RdIdle /\ wr = WrIdle /\ lastWrite = NoWrite

\* mutant of load_current: a failed load clears the display
load_current_Clearing(v, answer) ==
    IF ~(0 <= v.index /\ v.index < Len(v.files)) THEN v
    ELSE LET path == v.files[v.index + 1]
         IN  IF Loads(path, answer)
             THEN [v EXCEPT !.pil_image = path, !.zoom = ZoomOne, !.fit = TRUE]
             ELSE [v EXCEPT !.pil_image = NoneVal, !.zoom = ZoomOne, !.fit = TRUE]

\* load_current: pil_image, zoom and fit are assigned after the load, inside
\* the try; the except branch reports the failure and assigns nothing
load_current(v, answer) ==
    IF ~(0 <= v.index /\ v.index < Len(v.files)) THEN v
    ELSE LET path == v.files[v.index + 1]
         IN  IF Loads(path, answer)
             THEN [v EXCEPT !.pil_image = path, !.zoom = ZoomOne, !.fit = TRUE]
             ELSE v

\* open_file: both branches (.lamo or not) do the same
open_file(v, path, answer) ==
    IF path = "" THEN v
    ELSE load_current([v EXCEPT !.files = <<path>>, !.index = 0], answer)

OpenFile ==
    /\ \E path \in ViewerPaths \cup {""} :
          \E answer \in ViewerAnswers(<<path>>, 0) :
             viewer' = open_file(viewer, path, answer)
    /\ UNCHANGED <<disk, app, rd, wr, lastWrite>>

\* open_folder: a cancelled dialog is not told apart from an empty listing
open_folder(v, files, answer) ==
    IF files = <<>> THEN v
    ELSE load_current([v EXCEPT !.files = files, !.index = 0], answer)

OpenFolder ==
    /\ \E files \in Folders :
          \E answer \in ViewerAnswers(files, 0) :
             viewer' = open_folder(viewer, files, answer)
    /\ UNCHANGED <<disk, app, rd, wr, lastWrite>>

\* (self.index + 1) % len(self.files), (self.index - 1) % len(self.files):
\* Python's % takes the sign of the divisor, as % does here
NextIndex(v) == IF v.files = <<>> THEN v.index ELSE (v.index + 1) % Len(v.files)
PrevIndex(v) == IF v.files = <<>> THEN v.index ELSE (v.index - 1) % Len(v.files)

next_image(v, answer) ==
    IF v.files = <<>> THEN v
    ELSE load_current([v EXCEPT !.index = NextIndex(v)], answer)

NextImage ==
    /\ \E answer \in ViewerAnswers(viewer.files, NextIndex(viewer)) :
          viewer' = next_image(viewer, answer)
    /\ UNCHANGED <<disk, app, rd, wr, lastWrite>>

prev_image(v, answer) ==
    IF v.files = <<>> THEN v
    ELSE load_current([v EXCEPT !.index = PrevIndex(v)], answer)

PrevImage ==
    /\ \E answer \in ViewerAnswers(viewer.files, PrevIndex(viewer)) :
          viewer' = prev_image(viewer, answer)
    /\ UNCHANGED <<disk, app, rd, wr, lastWrite>>

Max(a, b) == IF a > b THEN a ELSE b

\* set_zoom: self.zoom = max(0.05, min(8.0, z)); self.fit = False
set_zoom(v, z) ==
    [v EXCEPT !.zoom = IF ZoomValue(z) > ZoomValue(ZoomMax) THEN ZoomMax
                       ELSE IF ZoomValue(z) < ZoomValue(ZoomMin) THEN ZoomMin
                       ELSE z,
              !.fit = FALSE]

\* the <plus> and <minus> keys (zoom * 1.25, zoom / 1.25) and the Zoom 100%
\* menu entry
ZoomRequests(v) ==
    { Zoom(v.zoom.base, v.zoom.k + 1), Zoom(v.zoom.base, v.zoom.k - 1), ZoomOne }

SetZoom ==
    /\ \E z \in ZoomRequests(viewer) : viewer' = set_zoom(viewer, z)
    /\ UNCHANGED <<disk, app, rd, wr, lastWrite>>

toggle_fit(v) == [v EXCEPT !.fit = ~v.fit]

ToggleFit ==
    /\ viewer' = toggle_fit(viewer)
    /\ UNCHANGED <<disk, app, rd, wr, lastWrite>>

\* toggle_slideshow: stopping clears the flag and leaves the pending callback
\* where it is; starting sets the flag and schedules a callback
toggle_slideshow(v) ==
    IF v.slideshow_running
    THEN [v EXCEPT !.slideshow_running = FALSE]
    ELSE [v EXCEPT !.slideshow_running = TRUE,
                   !.timers = Append(@, slideshow_delay)]

ToggleSlideshow ==
    /\ viewer.slideshow_running \/ Len(viewer.timers) < MaxTimers
    /\ viewer' = toggle_slideshow(viewer)
    /\ UNCHANGED <<disk, app, rd, wr, lastWrite>>

\* _slideshow_step, run by the oldest callback that is due
slideshow_step(v, answer) ==
    LET v1 == [v EXCEPT !.timers = Tail(@)]
    IN  IF ~v1.slideshow_running THEN v1
        ELSE [next_image(v1, answer) EXCEPT !.timers = Append(@, slideshow_delay)]

SlideshowTimer ==
    /\ viewer.timers # <<>>
    /\ Head(viewer.timers) = 0
    /\ \E answer \in ViewerAnswers(viewer.files, NextIndex(viewer)) :
          viewer' = slideshow_step(viewer, answer)
    /\ UNCHANGED <<disk, app, rd, wr, lastWrite>>

\* time passes while no callback is due
Tick ==
    /\ viewer.timers # <<>>
    /\ \A i \in 1..Len(viewer.timers) : viewer.timers[i] > 0
    /\ viewer' = [viewer EXCEPT
                     !.timers = [i \in 1..Len(@) |-> Max(0, @[i] - TickMs)]]
    /\ UNCHANGED <<disk, app, rd, wr, lastWrite>>

Next ==
    \/ open_image
    \/ clear
    \/ open_lamo
    \/ ReadMagic
    \/ ReadVersion
    \/ ReadMetaLen
    \/ ReadMeta
    \/ ParseMeta
    \/ ReadDataLen
    \/ ReadPayload
    \/ AskPassword
    \/ DecodeSalt
    \/ Decrypt
    \/ DecompressChunk
    \/ Flush
    \/ ImageOpen
    \/ open_lamo_failed
    \/ open_lamo_done
    \/ CallWriteLamo
    \/ convert_current_image
    \/ WCompress
    \/ WEncrypt
    \/ WMeta
    \/ WCheck
    \/ WOpen
    \/ WWrite
    \/ WWriteFails
    \/ WClose
    \/ WriteReturnApi
    \/ convert_failed
    \/ convert_done

Spec == Init /\ [][Next]_vars

\* the viewer on its own: a second program, LamoViewer.py
ViewerStart ==
    /\ CodecIdle
    /\ viewer = ViewerInit

ViewerNext ==
    \/ OpenFile
    \/ OpenFolder
    \/ NextImage
    \/ PrevImage
    \/ SetZoom
    \/ ToggleFit
    \/ ToggleSlideshow
    \/ SlideshowTimer
    \/ Tick

ViewerSpec == ViewerStart /\ [][ViewerNext]_vars

(***************************************************************************)
(* Properties                                                              *)
(***************************************************************************)
\* the read_lamo call in progress has run the stage
Ran(stage) == \E i \in 1..Len(rd.log) : rd.log[i] = stage

ReadOver == rd.pc \in {"done", "failed"}

RaisedWith(exc, msg) == rd.pc = "failed" /\ rd.exc = exc /\ rd.msg = msg

\* C1: once read_lamo has read a length field whose value is over its cap
\* (metaLen > MAX_META_SIZE, dataLen > MAX_DECOMPRESSED_SIZE) the call has
\* failed with the size-limit error of that field and has read nothing of the
\* region, whether or not the file holds as many bytes as declared; a length
\* equal to the cap is never answered with the size-limit error.
C1_CapCheckedBeforeRegionRead ==
    /\ Ran("meta_len") /\ disk.metaLen > MAX_META_SIZE
          => /\ RaisedWith("ValueError", MsgMetaSize)
             /\ rd.detail = ToString(disk.metaLen)
             /\ ~Ran("meta")
    /\ Ran("data_len") /\ disk.dataLen > MAX_DECOMPRESSED_SIZE
          => /\ RaisedWith("ValueError", MsgDataSize)
             /\ rd.detail = ToString(disk.dataLen)
             /\ ~Ran("payload")
    /\ Ran("meta_len") /\ disk.metaLen = MAX_META_SIZE => rd.msg # MsgMetaSize
    /\ Ran("data_len") /\ disk.dataLen = MAX_DECOMPRESSED_SIZE => rd.msg # MsgDataSize

\* a read that failed on dataLen over the cap of a file that holds fewer
\* payload bytes than it declares
C1_Witness ==
    /\ RaisedWith("ValueError", MsgDataSize)
    /\ disk.dataLen = MAX_DECOMPRESSED_SIZE + 1
    /\ disk.payload.len < disk.dataLen

\* what the payload in memory expands to when all of it is decompressed
FullExpansion(p) == OutAfter(p, p.len)

\* C2: the decompression loop never goes on to another chunk with more than
\* MAX_DECOMPRESSED_SIZE bytes of output; the chunk that takes the output
\* over the cap is the first to do so and the call fails there with the
\* compression-bomb error; every payload that expands to more than the cap
\* ends that way; and no call gets past the flush with an inner buffer over
\* the cap.
C2_BombStoppedAtFirstChunkOver ==
    /\ rd.pc = "chunk" => rd.png_size <= MAX_DECOMPRESSED_SIZE
    /\ RaisedWith("ValueError", MsgBomb)
          => /\ rd.png_size > MAX_DECOMPRESSED_SIZE
             /\ rd.chunks >= 1
             /\ OutAfter(rd.compressed, (rd.chunks - 1) * ChunkSize) <= MAX_DECOMPRESSED_SIZE
             /\ ~Ran("decompress")
    /\ ( /\ ReadOver \/ rd.pc = "image"
         /\ Ran("payload")
         /\ rd.chunks >= 1
         /\ ~ZlibRejects(rd.compressed)
         /\ FullExpansion(rd.compressed) > MAX_DECOMPRESSED_SIZE )
          => RaisedWith("ValueError", MsgBomb)
    /\ Ran("decompress") => rd.png_size <= MAX_DECOMPRESSED_SIZE

\* a bomb stopped with input chunks still left to decompress
C2_Witness ==
    /\ RaisedWith("ValueError", MsgBomb)
    /\ rd.chunks < NChunks(rd.compressed.len)

\* the file on disk is a frame whose payload is a Fernet token made under
\* password pw and the salt that its metadata records
EncryptedUnder(file, pw) ==
    /\ file.meta.kind = "object"
    /\ IsTrue(file.meta.map, "encrypted")
    /\ "salt" \in DOMAIN file.meta.map
    /\ file.meta.map.salt.enc = "b64"
    /\ file.payload.token = "fernet"
    /\ file.payload.key = derive_key(pw, file.meta.map.salt.bytes)

\* the payload of an encrypted frame (salt recorded) is no valid token
BadToken(file) ==
    /\ file.meta.kind = "object"
    /\ IsTrue(file.meta.map, "encrypted")
    /\ "salt" \in DOMAIN file.meta.map
    /\ file.meta.map.salt.enc = "b64"
    /\ file.payload.token # "fernet"

\* C6: when read_lamo has tried to decrypt with a password that is not the
\* one the file was encrypted under, or the payload is a tampered or
\* malformed token, the call has failed with the one decryption error
\* (ValueError, "Falha na descriptografia..."); for the two causes the error
\* is the same in type, message and detail; and the file is as it was when
\* the call opened it.
C6_WrongPasswordOrBadToken ==
    /\ ( /\ Ran("decrypt")
         /\ \E pw \in ProviderAnswers : pw # rd.password /\ EncryptedUnder(disk, pw) )
          => /\ RaisedWith("ValueError", MsgDecrypt)
             /\ rd.password # Unencodable => rd.detail = ""
             /\ disk = rd.file_at_open
    /\ Ran("decrypt") /\ BadToken(disk)
          => /\ RaisedWith("ValueError", MsgDecrypt)
             /\ rd.password # Unencodable => rd.detail = ""
             /\ disk = rd.file_at_open

\* a well-formed encrypted file read with a wrong password
C6_Witness ==
    /\ RaisedWith("ValueError", MsgDecrypt)
    /\ EncryptedUnder(disk, "pw1")
    /\ rd.password = "pw2"
    /\ disk = rd.file_at_open

\* the image read back has the pixels, size and mode of the image written
\* (read_lamo sets the format tag to "PNG")
SameImage(a, b) ==
    a.id = b.id /\ a.width = b.width /\ a.height = b.height /\ a.mode = b.mode

\* every key of m is in m2 with the same value
Preserved(m, m2) == \A k \in DOMAIN m : k \in DOMAIN m2 /\ m2[k] = m[k]

DefaultKeys == {"width", "height", "mode", "inner_format", "zlib_level"}

\* C3: write_lamo with a non-empty password completes (unless the metadata
\* is over MAX_META_SIZE), and reading the file back with that password
\* returns the image with metadata that has encrypted = true, salt = the
\* base64 of the salt the key was derived with, and every caller key kept.
C3_EncryptedRoundTrip ==
    /\ wr.pc = "failed" /\ ~NoPassword(wr.password) => wr.msg = MsgMetaGen
    /\ ( /\ ReadOver
         /\ lastWrite.valid
         /\ ~NoPassword(lastWrite.password)
         /\ rd.password = lastWrite.password )
          => /\ rd.pc = "done"
             /\ SameImage(rd.img, lastWrite.img)
             /\ IsTrue(rd.metadata, "encrypted")
             /\ "salt" \in DOMAIN rd.metadata
             /\ rd.metadata.salt = SaltB64(lastWrite.salt)
             /\ Preserved(lastWrite.metadata, rd.metadata)

\* C4: reading back a file that write_lamo wrote without a password returns
\* the image unchanged and metadata that keeps every caller key and adds
\* only the codec defaults, and the password provider is not consulted.
C4_PlainRoundTrip ==
    ( /\ ReadOver
      /\ lastWrite.valid
      /\ NoPassword(lastWrite.password) )
       => /\ rd.pc = "done"
          /\ SameImage(rd.img, lastWrite.img)
          /\ Preserved(lastWrite.metadata, rd.metadata)
          /\ (DOMAIN rd.metadata) \ (DOMAIN lastWrite.metadata) \subseteq DefaultKeys
          /\ ~Ran("ask")

\* C5: in every file that write_lamo has completed, metadata.encrypted is
\* true exactly when the payload is a Fernet token over the compressed inner
\* buffer and plain compressed bytes otherwise, and metadata.salt is present
\* exactly when metadata.encrypted is true.
C5_EncryptedFlagMatchesPayload ==
    lastWrite.valid
       => /\ IsTrue(disk.meta.map, "encrypted") <=> disk.payload.token = "fernet"
          /\ ~IsTrue(disk.meta.map, "encrypted") => disk.payload.token = "plain"
          /\ "salt" \in DOMAIN disk.meta.map <=> IsTrue(disk.meta.map, "encrypted")

\* exceptions that are ValueError (the one error type read_lamo raises
\* itself) or a subclass of it, and OSError for storage and image failures
TypedErrors == {"ValueError", "JSONDecodeError", "UnicodeDecodeError", "binascii.Error",
                "OSError"}

\* C7: whatever the file holds, a read_lamo call that fails does so with an
\* error of the codec's error families, never with another exception.
C7_OnlyTypedErrors == rd.pc = "failed" => rd.exc \in TypedErrors

\* C8: when the file holds fewer bytes of the metadata region than metaLen
\* or fewer of the payload region than dataLen, read_lamo fails on reading
\* the region: the short bytes never go on to JSON parsing, to decryption or
\* to decompression, and no such read returns.
C8_ShortReadRejected ==
    /\ Ran("meta") /\ disk.meta.len < disk.metaLen
          => rd.pc = "failed" /\ ~Ran("json")
    /\ Ran("payload") /\ disk.payload.len < disk.dataLen
          => rd.pc = "failed" /\ ~Ran("ask") /\ ~Ran("decrypt") /\ rd.chunks = 0

\* the salt key is missing or its value is no valid base64 string
SaltUnusable(m) == "salt" \notin DOMAIN m \/ m.salt.enc # "b64"

\* C9: when metadata.encrypted is true and metadata.salt is missing or not
\* valid base64, read_lamo fails on the metadata before it asks for the
\* password and without attempting decryption.
C9_SaltCheckedBeforePassword ==
    ( /\ Ran("payload")
      /\ rd.isdict
      /\ IsTrue(rd.metadata, "encrypted")
      /\ SaltUnusable(rd.metadata) )
       => ~Ran("ask") /\ ~Ran("decrypt")

\* C10: the error of a failed decryption carries the generic message alone,
\* with no text of the exception that decrypt_data raised, so it is the same
\* for every cause.
C10_GenericDecryptMessage ==
    RaisedWith("ValueError", MsgDecrypt) => rd.detail = ""

\* C11: from the moment a write_lamo call opens the file until it returns or
\* fails, the file at path holds either what it held before the call or the
\* complete new frame, never a proper prefix of the frame; so a call that
\* fails or is cut off at any step leaves no partial frame.
C11_NoPartialFrame ==
    wr.pc # "idle"
       => \/ disk = wr.file_at_call
          \/ wr.pc \in {"write", "done"} /\ disk = Frame(wr.meta_json, wr.compressed)

\* C12: a write_lamo call whose serialized metadata is longer than
\* MAX_META_SIZE gets no further than the length check: it fails there with
\* the metadata size error, has opened nothing and written no field, and the
\* file at path is as the call found it (absent if it was absent).
C12_MetaCapBeforeOpen ==
    /\ ( /\ wr.pc \notin {"idle", "compress", "encrypt", "meta"}
         /\ wr.exc # "UnboundLocalError"
         /\ wr.meta_json.len > MAX_META_SIZE )
          => /\ wr.pc \in {"check", "failed"}
             /\ wr.pc = "failed" => wr.exc = "ValueError" /\ wr.msg = MsgMetaGen
             /\ wr.fields = 0
             /\ disk = wr.file_at_call
    /\ wr.msg = MsgMetaGen => wr.meta_json.len > MAX_META_SIZE

\* a call with metadata over the cap that failed with a well-formed file at
\* path, which is still there
C12_Witness ==
    /\ wr.pc = "failed"
    /\ wr.msg = MsgMetaGen
    /\ wr.meta_json.len > MAX_META_SIZE
    /\ disk \in WellFormedFiles
    /\ disk = wr.file_at_call

\* C13: in every file that write_lamo has completed, each caller key has the
\* caller's value (width = 999 stays 999), and each of width, height, mode,
\* inner_format and zlib_level that the caller left out has the value of the
\* codec: the size and mode of the image, the format of the inner buffer
\* (PNG), the compression level used.
C13_DefaultPolicy ==
    lastWrite.valid
       => /\ Preserved(lastWrite.metadata, disk.meta.map)
          /\ \A k \in DefaultKeys \ DOMAIN lastWrite.metadata :
                /\ k \in DOMAIN disk.meta.map
                /\ disk.meta.map[k] = WriterMeta(lastWrite.img, lastWrite.zlib_level)[k]

\* C14: in every file that write_lamo has completed for a caller who gave no
\* inner_format, the inner_format recorded is PNG, the format of the inner
\* buffer, whatever the format tag of the image written.
C14_InnerFormatIsPng ==
    ( /\ lastWrite.valid
      /\ "inner_format" \notin DOMAIN lastWrite.metadata )
       => /\ disk.payload.inner.kind = "png"
          /\ disk.meta.map.inner_format = "PNG"

\* C15: a read_lamo call on a file whose first four bytes are not the magic
\* constant, a file of fewer than four bytes included, has failed with the
\* magic-mismatch error whatever else the file holds and has read nothing
\* more; on a file with the magic and a version byte other than 1 it has
\* failed with the version error that carries the byte read, before reading
\* any length field.
C15_MagicThenVersion ==
    /\ Ran("magic") /\ disk.magic # MAGIC
          => /\ RaisedWith("ValueError", MsgMagic)
             /\ rd.log = <<"magic">>
    /\ Ran("version") /\ disk.version # -1 /\ disk.version # VERSION
          => /\ disk.magic = MAGIC
             /\ RaisedWith("ValueError", MsgVersion)
             /\ rd.detail = ToString(disk.version)
             /\ rd.log = <<"magic", "version">>
    /\ rd.msg = MsgMagic => disk.magic # MAGIC
    /\ rd.msg = MsgVersion => disk.version # VERSION

\* a read that failed on version 2 of a file that is a valid frame otherwise
C15_Witness ==
    /\ RaisedWith("ValueError", MsgVersion)
    /\ rd.detail = "2"
    /\ disk.magic = MAGIC
    /\ disk.meta = Meta1
    /\ disk.payload = Plain1

\* the number of times the read_lamo call in progress has run the stage
Times(stage) == Cardinality({ i \in 1..Len(rd.log) : rd.log[i] = stage })

\* C16: read_lamo asks the password provider only when the decoded metadata
\* has encrypted = true, never when the key is missing or false, and at most
\* once in a call; when the provider returns no password the call has failed
\* with the password-required error and has attempted neither decryption
\* nor decompression.
C16_ProviderOnlyWhenEncrypted ==
    /\ Ran("ask") => rd.isdict /\ IsTrue(rd.metadata, "encrypted")
    /\ Times("ask") <= 1
    /\ Ran("ask") /\ NoPassword(rd.password)
          => /\ RaisedWith("ValueError", MsgNoPassword)
             /\ ~Ran("salt") /\ ~Ran("decrypt")
             /\ rd.chunks = 0 /\ ~Ran("decompress")

\* the stages of a read in the order of the frame-first state machine: the
\* six frame fields (FrameParsed), the JSON parse (MetadataParsed), password,
\* salt and decryption (Decrypted), decompression, image decoding (Done)
StageOrder ==
    <<"magic", "version", "meta_len", "meta", "data_len", "payload", "json",
      "ask", "salt", "decrypt", "decompress", "image">>

Pos(stage) == CHOOSE i \in 1..Len(StageOrder) : StageOrder[i] = stage

\* C17: the stages a read_lamo call has run are in the order frame fields,
\* JSON parse, decryption, decompression, image, each at most once: the JSON
\* parse comes after the dataLen check and the payload read, no chunk is
\* decompressed before an encrypted payload is decrypted, and a call that
\* failed has produced no image.
C17_StageOrder ==
    /\ \A i, j \in 1..Len(rd.log) : i < j => Pos(rd.log[i]) < Pos(rd.log[j])
    /\ Ran("json") => Ran("data_len") /\ Ran("payload")
    /\ rd.chunks > 0 /\ Ran("ask") => Ran("decrypt")
    /\ rd.pc = "failed" => rd.img = NoImage

\* C18: every file that write_lamo has completed passes the size checks of
\* read_lamo: its metadata is no longer than MAX_META_SIZE, its payload and
\* its inner buffer are no longer than MAX_DECOMPRESSED_SIZE, and no read
\* of it fails with a size-limit error.
C18_WriterWithinReaderCaps ==
    lastWrite.valid
       => /\ disk.metaLen <= MAX_META_SIZE
          /\ disk.dataLen <= MAX_DECOMPRESSED_SIZE
          /\ disk.payload.inner.size <= MAX_DECOMPRESSED_SIZE
          /\ rd.msg \notin {MsgMetaSize, MsgDataSize, MsgBomb}

\* C19: while the slideshow is running at most one _slideshow_step callback
\* is pending, so stopping it and starting it again before the pending
\* callback has fired does not leave two callbacks that both advance the
\* image and schedule a successor.
C19_OneSlideshowTimer ==
    viewer.slideshow_running => Len(viewer.timers) <= 1

\* every answer the password dialog can give
DialogAnswers == {NoneVal, "pw1", "pw2"}

\* the load of the file at the index of w, answered with a, fails
LoadFails(w, a) == w.files # <<>> /\ ~Loads(w.files[w.index + 1], a)

\* w shows what v shows: the same image at the same zoom and fit
SameDisplay(v, w) == w.pil_image = v.pil_image /\ w.zoom = v.zoom /\ w.fit = v.fit

\* C20: in every state the viewer reaches, index is a position of files when
\* files is not empty; next_image moves index one forward and prev_image one
\* back, from the last position to the first and from the first to the last,
\* and each undoes the other; with files empty they change nothing; and a
\* handler whose load of the file at the new index fails leaves the image
\* displayed, the zoom and the fit as they were.
C20_IndexAndDisplay ==
    /\ viewer.files # <<>> => 0 <= viewer.index /\ viewer.index < Len(viewer.files)
    /\ \A a \in DialogAnswers :
          LET n == next_image(viewer, a)
              p == prev_image(viewer, a)
              last == Len(viewer.files) - 1
          IN  /\ viewer.files # <<>>
                    => /\ n.index = IF viewer.index = last THEN 0 ELSE viewer.index + 1
                       /\ p.index = IF viewer.index = 0 THEN last ELSE viewer.index - 1
                       /\ n.files = viewer.files /\ p.files = viewer.files
              /\ \A b \in DialogAnswers :
                    /\ prev_image(n, b).index = viewer.index
                    /\ next_image(p, b).index = viewer.index
              /\ viewer.files = <<>> => n = viewer /\ p = viewer
              /\ LoadFails(n, a) => SameDisplay(viewer, n)
              /\ LoadFails(p, a) => SameDisplay(viewer, p)
              /\ \A path \in ViewerPaths :
                    LoadFails(open_file(viewer, path, a), a)
                       => SameDisplay(viewer, open_file(viewer, path, a))
              /\ \A files \in Folders :
                    files # <<>> /\ LoadFails(open_folder(viewer, files, a), a)
                       => SameDisplay(viewer, open_folder(viewer, files, a))
              /\ ( /\ viewer.timers # <<>>
                   /\ viewer.slideshow_running
                   /\ LoadFails(slideshow_step(viewer, a), a) )
                    => SameDisplay(viewer, slideshow_step(viewer, a))

\* the viewer stands on the corrupt file of a folder and still shows the
\* file before it, at the zoom and fit the user had set
C20_Witness ==
    /\ Len(viewer.files) = 4
    /\ viewer.files[viewer.index + 1] = "b.lamo"
    /\ viewer.pil_image = "a.lamo"
    /\ viewer.zoom = Zoom("1.0", 2)
    /\ ~viewer.fit

====
